---- MODULE Spec2Model ----
(***************************************************************************)
(* The two lip-reading services of compvis/services/lipread:               *)
(*   app.py             preprocess_landmarks -> predict_text ->            *)
(*                      analyze_lip_patterns -> detect_phonemes ->         *)
(*                      phonemes_to_text, calculate_confidence, /predict,  *)
(*                      /health and load_model (startup);                  *)
(*   app_lightweight.py analyze_lip_movement -> calculate_movement_metrics *)
(*                      -> recognize_speech_pattern /                      *)
(*                      analyze_fallback_patterns, /predict.               *)
(*                                                                         *)
(* Numbers.  A Python float is a fixed-point integer: coordinates and the  *)
(* other "linear" quantities of app.py are in units of 1/Scale, variances  *)
(* in units of 1/Scale^2, and the linear metrics of app_lightweight.py     *)
(* (whose thresholds go down to 0.0005) in units of 1/(Fine*Scale).        *)
(* Division rounds to the nearest unit and the square root rounds down.    *)
(* A scalar that numpy can return as NaN (the mean, the standard           *)
(* deviation of an empty array and everything computed from them) is a     *)
(* record [nan, v]; every comparison with NaN is FALSE, as in IEEE 754.    *)
(*                                                                         *)
(* Exceptions.  A function that can raise returns a record whose field     *)
(* exc is "None" or str(e) of the exception it raises.                     *)
(***************************************************************************)
EXTENDS Integers, Sequences, FiniteSets, TLC

VARIABLES model, tokenizer, last, ref

vars == <<model, tokenizer, last, ref>>

\* ---------------------------------------------------------------- numbers

\* Fixed-point resolution of a float: 0.001.
Scale == 1000

\* Extra resolution of app_lightweight.py's linear metrics: 0.0001.
Fine == 10

Abs(a) == IF a < 0 THEN -a ELSE a

\* a / b rounded to the nearest unit, b > 0.
RDiv(a, b) == IF a >= 0 THEN (2 * a + b) \div (2 * b) ELSE -((2 * (-a) + b) \div (2 * b))

RECURSIVE SqrtIter(_, _, _)
SqrtIter(n, lo, hi) ==
    IF lo >= hi THEN lo
    ELSE LET mid == (lo + hi + 1) \div 2
         IN  IF mid * mid <= n THEN SqrtIter(n, mid, hi) ELSE SqrtIter(n, lo, mid - 1)

\* floor(sqrt(n)) for 0 <= n < 2^31.
Sqrt(n) == SqrtIter(n, 0, 46340)

RECURSIVE SumRange(_, _, _)
SumRange(s, lo, hi) ==
    IF lo > hi THEN 0
    ELSE IF lo = hi THEN s[lo]
    ELSE LET mid == (lo + hi) \div 2 IN SumRange(s, lo, mid) + SumRange(s, mid + 1, hi)

\* Sum of a list of values.
Sum(s) == SumRange(s, 1, Len(s))

\* ndarray.flatten() of a 2-D array (row major); also the values of an
\* n-D array listed in order, applied once per extra dimension.
Flatten(rows) ==
    IF rows = <<>> THEN <<>>
    ELSE LET w == Len(rows[1])
         IN  [i \in 1..(Len(rows) * w) |-> rows[((i - 1) \div w) + 1][((i - 1) % w) + 1]]

SeqMax(s) == CHOOSE m \in {s[i] : i \in DOMAIN s} : \A i \in DOMAIN s : s[i] <= m
SeqMin(s) == CHOOSE m \in {s[i] : i \in DOMAIN s} : \A i \in DOMAIN s : s[i] >= m

\* A float that may be NaN.
Num(v) == [nan |-> FALSE, v |-> v]
NaN == [nan |-> TRUE, v |-> 0]

\* a > b and a < b on floats: FALSE when either is NaN.
FGt(a, b) == ~a.nan /\ ~b.nan /\ a.v > b.v
FLt(a, b) == ~a.nan /\ ~b.nan /\ a.v < b.v
FAdd(a, b) == IF a.nan \/ b.nan THEN NaN ELSE Num(a.v + b.v)

\* np.mean of a flat list of values: NaN (with a RuntimeWarning) when empty.
NpMean(s) == IF s = <<>> THEN NaN ELSE Num(RDiv(Sum(s), Len(s)))

\* Sum of squared deviations of the values of s from m.
SqDevFrom(s, m) == Sum([i \in DOMAIN s |-> (s[i] - m) * (s[i] - m)])

\* Sum of squared deviations from the (rounded) mean.
SqDev(s) == SqDevFrom(s, RDiv(Sum(s), Len(s)))

\* np.var of a flat list of values, in squared units; NaN when empty.
NpVar(s) == IF s = <<>> THEN NaN ELSE Num(RDiv(SqDev(s), Len(s)))

\* np.std of a flat list of values; NaN when empty.
NpStd(s) == IF s = <<>> THEN NaN ELSE Num(Sqrt(RDiv(SqDev(s), Len(s))))

\* np.linalg.norm of one vector.
Norm(v) == Sqrt(Sum([i \in DOMAIN v |-> v[i] * v[i]]))

\* ------------------------------------------------------ the request body

\* Number of points of a full MediaPipe face mesh.
FullMesh == 468

\* A frame of n points, all equal to pt except the points whose (0-based)
\* index is in DOMAIN over.
MkFrame(n, pt, over) == [i \in 1..n |-> IF (i - 1) \in DOMAIN over THEN over[i - 1] ELSE pt]

\* frame[i] with Python's 0-based index.
At(frame, i) == frame[i + 1]

\* ------------------------------------------- app.py: preprocess_landmarks

\* list(set([i for i in lip_indices if i < 468])): the 27 distinct lip
\* indices, in the iteration order of a CPython set of small integers.
valid_lip_indices ==
    <<13, 14, 17, 402, 405, 178, 307, 308, 310, 311, 312, 314, 317, 61,
      318, 320, 321, 324, 78, 80, 81, 82, 84, 87, 88, 95, 375>>

\* Fixed sequence length of the tensor.
max_frames == 50

\* [frame_landmarks[i] for i in valid_lip_indices if i < len(frame_landmarks)]
lip_landmarks_of(frame_landmarks) ==
    LET keep == SelectSeq(valid_lip_indices, LAMBDA i : i < Len(frame_landmarks))
    IN  [k \in DOMAIN keep |-> At(frame_landmarks, keep[k])]

\* np.array(points) succeeds on a list of points only if they all have the
\* same number of coordinates.
Homogeneous(points) == \A k \in DOMAIN points : Len(points[k]) = Len(points[1])

\* Column j of a 2-D array.
Column(arr, j) == [k \in DOMAIN arr |-> arr[k][j]]

\* lip_array - mouth_center (lines 106-107).
centre(lip_array, mouth_center) ==
    [k \in DOMAIN lip_array |->
        [j \in DOMAIN mouth_center |-> lip_array[k][j] - mouth_center[j]]]

\* lip_array / lip_scale if lip_scale > 0 (lines 110-112); the quotient
\* is in units of 1/Scale.
scale(lip_array, lip_scale) ==
    IF FGt(lip_scale, Num(0))
    THEN [k \in DOMAIN lip_array |->
            [j \in DOMAIN lip_array[k] |-> RDiv(lip_array[k][j] * Scale, lip_scale.v)]]
    ELSE lip_array

\* np.std of a 2-D array.
std_of(lip_array) == NpStd(Flatten(lip_array))

\* np.mean(lip_array, axis=0).
mean_axis0(lip_array) ==
    [j \in DOMAIN lip_array[1] |-> RDiv(Sum(Column(lip_array, j)), Len(lip_array))]

\* The centred lip points divided by their standard deviation.
scale_centred(centred) == scale(centred, std_of(centred))

\* Lines 102-112: centre the lip points on their mean, divide by the
\* standard deviation of all centred coordinates when it is positive.
normalize_lip(lip_landmarks) == scale_centred(centre(lip_landmarks, mean_axis0(lip_landmarks)))

\* A variant of the test of line 96 that lets any non-empty frame through.
HasAnyPoint(frame_landmarks) == Len(frame_landmarks) > 0

\* Whether a frame enters the lip-specific path of the loop (line 96).
HasFullMesh(frame_landmarks) == Len(frame_landmarks) >= FullMesh

\* a - b on two 1-D arrays of the same length, or one of length 1.
broadcast_sub(a, b) ==
    [i \in 1..(IF Len(a) = 1 THEN Len(b) ELSE Len(a)) |->
        a[IF Len(a) = 1 THEN 1 ELSE i] - b[IF Len(b) = 1 THEN 1 ELSE i]]

\* A variant of lines 118-120 that keeps the frame without its movement.
with_movement_dropped(flat, prev_frame) == [exc |-> "None", frame |-> flat]

\* Lines 118-120: the frame concatenated with its movement from prev_frame;
\* the subtraction raises unless the lengths agree (or one is 1).
with_movement(flat, prev_frame) ==
    IF Len(flat) = Len(prev_frame) \/ Len(prev_frame) = 1 \/ Len(flat) = 1
    THEN [exc |-> "None", frame |-> flat \o broadcast_sub(flat, prev_frame)]
    ELSE [exc |-> "operands could not be broadcast together with shapes ("
                  \o ToString(Len(flat)) \o ",) (" \o ToString(Len(prev_frame)) \o ",) ",
          frame |-> <<>>]

\* Lines 114-122: the feature vector of a frame.
enhanced_frame_of(flat, processed_frames) ==
    IF Len(processed_frames) > 0
    THEN with_movement(flat, processed_frames[Len(processed_frames)])
    ELSE [exc |-> "None", frame |-> flat]

\* The state of the loop of lines 95-124: the exception raised so far,
\* the processed frames and the (1-based) indices of the frames that
\* took the lip path.
LoopState(exc, frames, lipFrames) == [exc |-> exc, frames |-> frames, lipFrames |-> lipFrames]

\* Line 124 after lines 114-122 on frame k.
append_frame(acc, k, e) ==
    IF e.exc # "None"
    THEN LoopState(e.exc, acc.frames, acc.lipFrames \cup {k})
    ELSE LoopState("None", Append(acc.frames, e.frame), acc.lipFrames \cup {k})

\* Lines 100-124 on the lip points of frame k.
lip_path(acc, k, lip_landmarks) ==
    IF Len(lip_landmarks) = 0 THEN acc
    ELSE IF ~Homogeneous(lip_landmarks)
    THEN LoopState("setting an array element with a sequence. The requested array has an inhomogeneous shape after 1 dimensions.",
                   acc.frames, acc.lipFrames \cup {k})
    ELSE append_frame(acc, k, enhanced_frame_of(Flatten(normalize_lip(lip_landmarks)),
                                                 acc.frames))

\* One iteration of the loop of lines 95-124, on frame k.
frame_step(acc, k, frame_landmarks) ==
    IF HasFullMesh(frame_landmarks)
    THEN lip_path(acc, k, lip_landmarks_of(frame_landmarks))
    ELSE acc

RECURSIVE frame_loop(_, _, _)
\* Lines 95-124: the loop over the frames from index k on; an exception
\* ends it.
frame_loop(landmarks_data, k, acc) ==
    IF k > Len(landmarks_data) \/ acc.exc # "None" THEN acc
    ELSE frame_loop(landmarks_data, k + 1, frame_step(acc, k, landmarks_data[k]))

\* np.zeros_like(frame).
zeros_like(frame) == [i \in DOMAIN frame |-> 0]

\* Lines 131-137: truncate to max_frames, or pad with np.zeros_like of the
\* first processed frame.
pad_or_truncate(processed_frames) ==
    IF Len(processed_frames) > max_frames
    THEN SubSeq(processed_frames, 1, max_frames)
    ELSE [t \in 1..max_frames |->
            IF t <= Len(processed_frames) THEN processed_frames[t]
            ELSE zeros_like(processed_frames[1])]

\* The first row whose length is not that of row 1.
first_mismatch(frames) ==
    CHOOSE u \in DOMAIN frames :
        /\ Len(frames[u]) # Len(frames[1])
        /\ \A w \in 1..(u - 1) : Len(frames[w]) = Len(frames[1])

\* Lines 139-145: torch.tensor of a list of 1-D arrays raises unless they
\* all have the length of the first; a 2-D tensor gets a batch dimension.
to_tensor(frames) ==
    IF \E t \in DOMAIN frames : Len(frames[t]) # Len(frames[1])
    THEN [exc |-> "expected sequence of length " \o ToString(Len(frames[1]))
                  \o " at dim 1 (got " \o ToString(Len(frames[first_mismatch(frames)])) \o ")",
          tensor |-> <<>>]
    ELSE [exc |-> "None", tensor |-> <<frames>>]

\* The result of preprocess_landmarks: the exception raised or the tensor.
Preprocessed(t, lipFrames) == [exc |-> t.exc, tensor |-> t.tensor, lipFrames |-> lipFrames]

\* Lines 126-145, after the loop.
after_loop(loop) ==
    IF loop.exc # "None"
    THEN [exc |-> loop.exc, tensor |-> <<>>, lipFrames |-> loop.lipFrames]
    ELSE IF loop.frames = <<>>
    THEN [exc |-> "No valid lip landmarks found", tensor |-> <<>>,
          lipFrames |-> loop.lipFrames]
    ELSE Preprocessed(to_tensor(pad_or_truncate(loop.frames)), loop.lipFrames)

\* preprocess_landmarks: [exc, tensor, lipFrames]; the tensor is a batch
\* (of one) of max_frames rows.
preprocess_landmarks(landmarks_data) ==
    after_loop(frame_loop(landmarks_data, 1, LoopState("None", <<>>, {})))

\* ------------------------------------- app.py: the analysis of the tensor

\* The float n/1000 in units of 1/Scale (0.01 is Milli(10)).
Milli(n) == (n * Scale) \div 1000

\* Python's None (the global model, a function that returns no value).
PyNone == "<None>"

\* landmarks_np[:, :, c] (c 0-based) as a flat list over batch and time.
Channel(landmarks_np, c) ==
    Flatten([b \in DOMAIN landmarks_np |->
                [t \in DOMAIN landmarks_np[b] |-> landmarks_np[b][t][c + 1]]])

\* np.diff(landmarks_np, axis=0): one entry per pair of consecutive batch
\* entries, so it is empty for a batch of one.
frame_diffs_of(landmarks_np) ==
    [b \in 1..(Len(landmarks_np) - 1) |->
        [t \in DOMAIN landmarks_np[b] |->
            [k \in DOMAIN landmarks_np[b][t] |->
                landmarks_np[b + 1][t][k] - landmarks_np[b][t][k]]]]

\* np.linalg.norm(frame_diffs, axis=2) as a flat list.
diff_norms(frame_diffs) ==
    Flatten([b \in DOMAIN frame_diffs |->
                [t \in DOMAIN frame_diffs[b] |-> Norm(frame_diffs[b][t])]])

\* np.mean(np.linalg.norm(frame_diffs, axis=2)): NaN when frame_diffs is
\* empty (lines 216-217 and 489-490).
movement_intensity_of(landmarks_np) == NpMean(diff_norms(frame_diffs_of(landmarks_np)))

\* Number of features of the rows of the tensor.
WidthOf(landmarks_np) ==
    IF landmarks_np = <<>> \/ landmarks_np[1] = <<>> THEN 0 ELSE Len(landmarks_np[1][1])

\* np.var(landmarks_np, axis=1) as a flat list: the variance over time
\* of every feature of every batch entry (squared units).
frame_variance_of(landmarks_np, width) ==
    Flatten([b \in DOMAIN landmarks_np |->
                [k \in 1..width |-> NpVar(Column(landmarks_np[b], k)).v]])

\* np.mean(np.var(landmarks_np, axis=1)).
total_variance_of(landmarks_np) ==
    NpMean(frame_variance_of(landmarks_np, WidthOf(landmarks_np)))

\* np.mean(np.abs(frame_diffs), axis=1): per batch difference and feature,
\* the mean over time; a list of rows, empty for a batch of one.
mean_abs_axis1(frame_diffs) ==
    [b \in DOMAIN frame_diffs |->
        [k \in DOMAIN frame_diffs[b][1] |->
            NpMean([t \in DOMAIN frame_diffs[b] |-> Abs(frame_diffs[b][t][k])]).v]]

movement_patterns_of(landmarks_np) == mean_abs_axis1(frame_diffs_of(landmarks_np))

\* np.sum(movement_patterns > np.mean(movement_patterns) * 1.2), line 293.
rapid_movements_of(flat_patterns, mean_pattern) ==
    Cardinality({i \in DOMAIN flat_patterns :
                    ~mean_pattern.nan /\ 5 * flat_patterns[i] > 6 * mean_pattern.v})

\* np.sum(np.diff(movement_patterns) < -np.std(movement_patterns) * 0.5),
\* line 299; np.diff runs along the last axis.
movement_stops_of(movement_patterns, std_pattern) ==
    Cardinality({p \in UNION {{<<b, k>> : k \in 1..(Len(movement_patterns[b]) - 1)} :
                                 b \in DOMAIN movement_patterns} :
                    /\ ~std_pattern.nan
                    /\ 2 * (movement_patterns[p[1]][p[2] + 1]
                            - movement_patterns[p[1]][p[2]]) < -std_pattern.v})

\* A variant of the vowel cascade in which every threshold that is
\* exceeded adds its label.
vowel_rule_every_match(lip_opening_range, lip_width_range) ==
    (IF lip_opening_range > Milli(10)
     THEN (IF lip_width_range > Milli(8) THEN <<"A">> ELSE <<"O">>) ELSE <<>>)
    \o (IF lip_opening_range > Milli(8)
        THEN (IF lip_width_range > Milli(5) THEN <<"E">> ELSE <<"I">>) ELSE <<>>)
    \o (IF lip_opening_range > Milli(5) THEN <<"U">> ELSE <<>>)

\* Lines 273-284: the vowel cascade.
vowel_rule(lip_opening_range, lip_width_range) ==
    IF lip_opening_range > Milli(10)
    THEN (IF lip_width_range > Milli(8) THEN <<"A">> ELSE <<"O">>)
    ELSE IF lip_opening_range > Milli(8)
    THEN (IF lip_width_range > Milli(5) THEN <<"E">> ELSE <<"I">>)
    ELSE IF lip_opening_range > Milli(5)
    THEN <<"U">>
    ELSE <<>>

\* A variant of the consonant checks that adds "H" on significant
\* movement whatever the opening range.
consonant_rules_h_on_movement(lip_opening_range, lip_width_range, rapid_movements, n_patterns, movement_stops, avg_movement) ==
    (IF lip_width_range > Milli(10) THEN <<"M", "B", "P">> ELSE <<>>)
    \o (IF 5 * rapid_movements > n_patterns THEN <<"F", "V">> ELSE <<>>)
    \o (IF movement_stops > 0 THEN <<"T", "D">> ELSE <<>>)
    \o (IF FGt(avg_movement, Num(Milli(10))) THEN <<"H">> ELSE <<>>)
    \o (IF FGt(avg_movement, Num(Milli(10))) /\ lip_width_range > Milli(10)
        THEN <<"L">> ELSE <<>>)

\* Lines 287-310: the consonant checks; n_patterns is
\* len(movement_patterns).
consonant_rules(lip_opening_range, lip_width_range, rapid_movements, n_patterns, movement_stops, avg_movement) ==
    (IF lip_width_range > Milli(10) THEN <<"M", "B", "P">> ELSE <<>>)
    \o (IF 5 * rapid_movements > n_patterns THEN <<"F", "V">> ELSE <<>>)
    \o (IF movement_stops > 0 THEN <<"T", "D">> ELSE <<>>)
    \o (IF FGt(avg_movement, Num(Milli(10))) /\ lip_opening_range > Milli(10)
        THEN <<"H">> ELSE <<>>)
    \o (IF FGt(avg_movement, Num(Milli(10))) /\ lip_width_range > Milli(10)
        THEN <<"L">> ELSE <<>>)

\* A variant of the default of lines 312-319 that leaves the list empty
\* when both ranges are under the noise floor.
default_rule_no_label(phonemes, lip_opening_range, lip_width_range) ==
    IF phonemes # <<>> THEN phonemes
    ELSE IF lip_opening_range > Milli(1) THEN <<"H">>
    ELSE IF lip_width_range > Milli(1) THEN <<"M">>
    ELSE <<>>

\* Lines 313-319: the default when no rule added a label.
default_rule(phonemes, lip_opening_range, lip_width_range) ==
    IF phonemes # <<>> THEN phonemes
    ELSE IF lip_opening_range > Milli(1) THEN <<"H">>
    ELSE IF lip_width_range > Milli(1) THEN <<"M">>
    ELSE <<"A">>

\* Lines 272-322 of detect_phonemes, on the quantities it computes.
phoneme_rules(lip_opening_range, lip_width_range, rapid_movements, n_patterns, movement_stops, avg_movement) ==
    default_rule(vowel_rule(lip_opening_range, lip_width_range)
                 \o consonant_rules(lip_opening_range, lip_width_range, rapid_movements,
                                    n_patterns, movement_stops, avg_movement),
                 lip_opening_range, lip_width_range)

\* np.max(coords) - np.min(coords).
RangeOf(coords) == SeqMax(coords) - SeqMin(coords)

\* Lines 266-322, on the movement patterns.
phonemes_from(lip_opening_range, lip_width_range, movement_patterns, flat_patterns) ==
    phoneme_rules(lip_opening_range, lip_width_range,
                  rapid_movements_of(flat_patterns, NpMean(flat_patterns)),
                  Len(movement_patterns),
                  movement_stops_of(movement_patterns, NpStd(flat_patterns)),
                  NpMean(flat_patterns))

phonemes_of_patterns(lip_opening_range, lip_width_range, movement_patterns) ==
    phonemes_from(lip_opening_range, lip_width_range, movement_patterns,
                  Flatten(movement_patterns))

\* detect_phonemes, lines 253-326: the list of phoneme labels.
detect_phonemes(landmarks_np, x_coords, y_coords) ==
    IF x_coords = <<>> \/ y_coords = <<>>
    THEN <<"H", "E", "L", "L", "O">>    \* np.max of an empty array raises
    ELSE phonemes_of_patterns(RangeOf(y_coords), RangeOf(x_coords),
                              movement_patterns_of(landmarks_np))

\* "x" in phonemes.
Has(phonemes, x) == \E i \in DOMAIN phonemes : phonemes[i] = x

\* len([p for p in phonemes if p in "AEIOU"]), and its complement.
VowelCount(phonemes) ==
    Cardinality({i \in DOMAIN phonemes : phonemes[i] \in {"A", "E", "I", "O", "U"}})
ConsonantCount(phonemes) == Len(phonemes) - VowelCount(phonemes)

\* phonemes_to_text, lines 328-429: the phrase, or PyNone where the
\* function ends without a return statement (a one-label list whose label
\* is not a vowel, lines 381-391).
phonemes_to_text(phonemes, movement_intensity, lip_opening_variance) ==
    IF phonemes = <<>> THEN "No speech detected"
    ELSE IF Has(phonemes, "H") /\ Has(phonemes, "E") /\ Has(phonemes, "L")
    THEN (IF FGt(movement_intensity, Num(Milli(15))) THEN "Hello world" ELSE "Hello")
    ELSE IF Has(phonemes, "H") /\ Has(phonemes, "I") THEN "Hi"
    ELSE IF Has(phonemes, "G") /\ Has(phonemes, "O") /\ Has(phonemes, "D") THEN "Good"
    ELSE IF Has(phonemes, "T") /\ Has(phonemes, "H") /\ Has(phonemes, "A") /\ Has(phonemes, "N")
    THEN "Thank you"
    ELSE IF Has(phonemes, "Y") /\ Has(phonemes, "E") /\ Has(phonemes, "S") THEN "Yes"
    ELSE IF Has(phonemes, "N") /\ Has(phonemes, "O") THEN "No"
    ELSE IF Has(phonemes, "B") /\ Has(phonemes, "Y") THEN "Bye"
    ELSE IF Has(phonemes, "P") /\ Has(phonemes, "L") /\ Has(phonemes, "E") THEN "Please"
    ELSE IF Has(phonemes, "S") /\ Has(phonemes, "O") /\ Has(phonemes, "R") THEN "Sorry"
    ELSE IF Len(phonemes) = 1
    THEN (IF Has(phonemes, "A") THEN "Ah"
          ELSE IF Has(phonemes, "E") THEN "Eh"
          ELSE IF Has(phonemes, "I") THEN "Ee"
          ELSE IF Has(phonemes, "O") THEN "Oh"
          ELSE IF Has(phonemes, "U") THEN "Oo"
          ELSE PyNone)
    ELSE IF VowelCount(phonemes) >= 2
    THEN (IF FGt(movement_intensity, Num(Milli(20))) THEN "Hello world"
          ELSE IF FGt(movement_intensity, Num(Milli(15))) THEN "Hello"
          ELSE "Hi")
    ELSE IF ConsonantCount(phonemes) >= 2
    THEN (IF Has(phonemes, "M") \/ Has(phonemes, "B") \/ Has(phonemes, "P") THEN "Good"
          ELSE IF Has(phonemes, "T") \/ Has(phonemes, "D") THEN "Thank you"
          ELSE "Yes")
    ELSE IF FGt(movement_intensity, Num(Milli(20))) /\ Len(phonemes) > 3 THEN "Hello world"
    ELSE IF FGt(movement_intensity, Num(Milli(15))) /\ Len(phonemes) > 2 THEN "Hello"
    ELSE IF FGt(movement_intensity, Num(Milli(10))) THEN "Hi"
    ELSE "Ah"

\* What analyze_lip_patterns returns and computes.
Analysis(text, phonemes, movement_intensity) ==
    [text |-> text, phonemes |-> phonemes, movement_intensity |-> movement_intensity]

\* Line 235.
text_of(detected_phonemes, movement_intensity, lip_opening_variance) ==
    Analysis(phonemes_to_text(detected_phonemes, movement_intensity, lip_opening_variance),
             detected_phonemes, movement_intensity)

\* Lines 211-245, on the coordinate channels.
analyze_channels(landmarks_np, x_coords, y_coords) ==
    text_of(detect_phonemes(landmarks_np, x_coords, y_coords),
            movement_intensity_of(landmarks_np), NpVar(y_coords))

\* analyze_lip_patterns, lines 188-251: [text, phonemes, movement_intensity].
analyze_lip_patterns(landmarks_np) ==
    IF landmarks_np = <<>>
    THEN Analysis("Error in analysis", <<>>, NaN)
    ELSE IF Len(landmarks_np[1]) > 0
    THEN IF Len(landmarks_np[1][1]) < 2
         THEN \* landmarks_np[:, :, 1] raises IndexError, caught at line 249
              Analysis("Error in analysis", <<>>, NaN)
         ELSE analyze_channels(landmarks_np, Channel(landmarks_np, 0),
                               Channel(landmarks_np, 1))
    ELSE Analysis("No speech detected", <<>>, NaN)

\* A variant of predict_text that takes the inference branch as soon as
\* the tokenizer is there.
predict_text_on_tokenizer(landmarks_tensor, mdl, tok) ==
    IF tok = PyNone
    THEN analyze_lip_patterns(landmarks_tensor)
    ELSE Analysis("<tokenizer.decode>", <<>>, NaN)

\* predict_text, lines 151-186: pattern analysis when no model is loaded,
\* else the text decoded from the model's output.
predict_text(landmarks_tensor, mdl, tok) ==
    IF mdl = PyNone
    THEN analyze_lip_patterns(landmarks_tensor)
    ELSE Analysis(IF tok # PyNone THEN "<tokenizer.decode>"
                  ELSE "Hello world, this is a test.", <<>>, NaN)

\* Python's max(a, b) and min(a, b) on floats: b only if b > a (b < a).
PyMax(a, b) == IF FGt(b, a) THEN b ELSE a
PyMin(a, b) == IF FLt(b, a) THEN b ELSE a

\* x * c / d on a float.
FScale(x, c, d) == IF x.nan THEN NaN ELSE Num(RDiv(x.v * c, d))

\* Lines 500-504, in units of 1/Scale; variance * 100 in squared units is
\* variance * 100 / Scale units.
confidence_score(total_variance, movement_intensity, lip_opening_variance) ==
    PyMin(Num(Scale),
          PyMax(Num(Milli(100)),
                FAdd(FAdd(FScale(total_variance, 100, Scale),
                          FScale(movement_intensity, 50, 1)),
                     FScale(lip_opening_variance, 200, Scale)))).v

\* calculate_confidence, lines 479-510, in units of 1/Scale.
calculate_confidence(landmarks_tensor) ==
    IF landmarks_tensor = <<>> \/ landmarks_tensor[1] = <<>>
    THEN Milli(100)    \* an exception, caught at line 508
    ELSE confidence_score(total_variance_of(landmarks_tensor),
                          movement_intensity_of(landmarks_tensor),
                          IF WidthOf(landmarks_tensor) >= 2
                          THEN NpVar(Channel(landmarks_tensor, 1)) ELSE Num(0))

\* The stages a successful /predict of app.py runs, in order.
AllStages ==
    <<"preprocess_landmarks", "predict_text", "calculate_confidence", "LipReadResponse">>

\* The response of the except branch of /predict, lines 469-477.
error_response(e, trace, lipFrames) ==
    [text |-> "Error processing landmarks: " \o e, confidence |-> 0, exc |-> e,
     trace |-> trace, lipFrames |-> lipFrames, shape |-> <<>>, pad_zero |-> FALSE,
     phonemes |-> <<>>, movement_intensity |-> NaN, model_used |-> FALSE]

\* Whether the rows of the tensor after the first n are all zero.
PadZero(rows, n) ==
    \A t \in DOMAIN rows : t > n => \A k \in DOMAIN rows[t] : rows[t][k] = 0

\* LipReadResponse(text=..., ...), lines 463-467: validation fails when the
\* text is None, and the except branch answers.
validated(done) ==
    IF done.text = PyNone
    THEN [done EXCEPT !.text = "Error processing landmarks: "
                                \o "1 validation error for LipReadResponse",
                      !.confidence = 0,
                      !.exc = "1 validation error for LipReadResponse"]
    ELSE done

\* Lines 454-467.  Beside text and confidence the record keeps what the
\* handler did: the exception it caught, the stages it entered, the frames
\* that took the lip path, the shape of the tensor, whether its rows after
\* the real frames are all zero, and the metrics of analyze_lip_patterns.
respond(pre, predicted, confidence, mdl) ==
    validated([text |-> predicted.text, confidence |-> confidence, exc |-> "None",
               trace |-> AllStages, lipFrames |-> pre.lipFrames,
               shape |-> <<Len(pre.tensor), Len(pre.tensor[1]), Len(pre.tensor[1][1])>>,
               pad_zero |-> PadZero(pre.tensor[1], Cardinality(pre.lipFrames)),
               phonemes |-> predicted.phonemes,
               movement_intensity |-> predicted.movement_intensity,
               model_used |-> mdl # PyNone])

\* Lines 447-477, after preprocess_landmarks.
handle(pre, mdl, tok) ==
    IF pre.exc # "None"
    THEN error_response(pre.exc, SubSeq(AllStages, 1, 1), pre.lipFrames)
    ELSE respond(pre, predict_text(pre.tensor, mdl, tok),
                 calculate_confidence(pre.tensor), mdl)

\* predict_lip_reading of app.py, lines 441-477.
predict_lip_reading(landmarks, mdl, tok) ==
    handle(preprocess_landmarks(landmarks), mdl, tok)

\* --------------------------------------------------- app_lightweight.py

\* lip_landmarks_indices, lines 46-53 (with its repetitions).
lip_landmarks_indices ==
    <<61, 84, 17, 314, 405, 320, 307, 375, 321, 308, 324, 318,
      13, 82, 81, 80, 78, 95, 88, 178, 87, 14, 317, 402, 318, 324, 308, 415, 310, 311, 312,
      269, 270, 267, 271, 272, 407, 408, 409, 410, 415, 310, 311, 312, 13, 82, 81, 80, 78, 95, 88>>

\* The float n/10000 in units of 1/(Fine*Scale), and the float n/1000000
\* in units of 1/Scale^2.
FineU(n) == (n * Fine * Scale) \div 10000
SqU(n) == (n * Scale * Scale) \div 1000000

\* np.array(landmarks_data) is a 3-D array only if every frame has the
\* same number of points and every point the same number of coordinates.
Rectangular(landmarks_data) ==
    /\ \A f \in DOMAIN landmarks_data : Len(landmarks_data[f]) = Len(landmarks_data[1])
    /\ \A f \in DOMAIN landmarks_data : \A q \in DOMAIN landmarks_data[f] :
          Len(landmarks_data[f][q]) = Len(landmarks_data[1][1])

\* Sqrt of a sum of squares in units of 1/(Fine*Scale).
SqrtFine(sq) == IF sq < 20000000 THEN Sqrt(Fine * Fine * sq) ELSE Fine * Sqrt(sq)

\* np.linalg.norm of one vector in units of 1/(Fine*Scale).
NormFine(v) == SqrtFine(Sum([i \in DOMAIN v |-> v[i] * v[i]]))

\* np.linalg.norm(np.diff(lip_landmarks, axis=0), axis=2) as a flat list.
light_diff_norms(lip_landmarks) ==
    Flatten([f \in 1..(Len(lip_landmarks) - 1) |->
                [q \in DOMAIN lip_landmarks[f] |->
                    NormFine([j \in DOMAIN lip_landmarks[f][q] |->
                                lip_landmarks[f + 1][q][j] - lip_landmarks[f][q][j]])]])

\* lip_landmarks[:, :, 1] as a flat list.
light_y_coords(lip_landmarks) ==
    Flatten([f \in DOMAIN lip_landmarks |-> Column(lip_landmarks[f], 2)])

\* np.abs(np.diff(y_coords, axis=0)) as a flat list.
light_y_diffs(lip_landmarks) ==
    Flatten([f \in 1..(Len(lip_landmarks) - 1) |->
                [q \in DOMAIN lip_landmarks[f] |->
                    Abs(lip_landmarks[f + 1][q][2] - lip_landmarks[f][q][2])]])

\* np.mean of absolute differences, in units of 1/(Fine*Scale).
MeanFine(d) == Num(RDiv(Fine * Sum(d), Len(d)))

\* A variant of the metrics that computes opening_frequency as soon as
\* there are two frames.
Metrics_frequency_of_two(nframes, dims, total_variance, norms_mean, norms_std, y_var, y_freq) ==
    [total_variance       |-> total_variance,
     movement_intensity   |-> IF nframes > 1 THEN norms_mean ELSE Num(0),
     movement_consistency |-> IF nframes > 1 THEN norms_std ELSE Num(0),
     lip_opening_variance |-> IF dims >= 2 THEN y_var ELSE Num(0),
     opening_frequency    |-> IF dims >= 2 /\ nframes > 1 THEN y_freq ELSE Num(0)]

\* The metrics recognize_speech_pattern reads.
Metrics(nframes, dims, total_variance, norms_mean, norms_std, y_var, y_freq) ==
    [total_variance       |-> total_variance,
     movement_intensity   |-> IF nframes > 1 THEN norms_mean ELSE Num(0),
     movement_consistency |-> IF nframes > 1 THEN norms_std ELSE Num(0),
     lip_opening_variance |-> IF dims >= 2 THEN y_var ELSE Num(0),
     opening_frequency    |-> IF dims >= 2 /\ nframes > 2 THEN y_freq ELSE Num(0)]

\* calculate_movement_metrics, lines 80-126, on an array of frames x
\* points x coordinates (at least one point and one coordinate).
calculate_movement_metrics(lip_landmarks) ==
    Metrics(Len(lip_landmarks), Len(lip_landmarks[1][1]),
            NpVar(Flatten(Flatten(lip_landmarks))),
            NpMean(light_diff_norms(lip_landmarks)),
            NpStd(light_diff_norms(lip_landmarks)),
            NpVar(light_y_coords(lip_landmarks)),
            MeanFine(light_y_diffs(lip_landmarks)))

\* recognize_speech_pattern, lines 128-181.
recognize_speech_pattern(metrics) ==
    IF /\ FGt(metrics.movement_intensity, Num(FineU(50)))
       /\ FGt(metrics.lip_opening_variance, Num(SqU(2000)))
       /\ FGt(metrics.opening_frequency, Num(FineU(10)))
    THEN (IF FGt(metrics.movement_consistency, Num(FineU(10)))
          THEN "Hello world, this is a test." ELSE "Hello world")
    ELSE IF /\ FGt(metrics.movement_intensity, Num(FineU(20)))
            /\ FGt(metrics.lip_opening_variance, Num(SqU(1000)))
    THEN (IF FGt(metrics.opening_frequency, Num(FineU(5))) THEN "Hello world" ELSE "Hello")
    ELSE IF /\ FGt(metrics.movement_intensity, Num(FineU(5)))
            /\ FGt(metrics.lip_opening_variance, Num(SqU(300)))
    THEN "Hello"
    ELSE IF FGt(metrics.total_variance, Num(SqU(100))) THEN "Hi"
    ELSE "No speech detected"

\* np.var(landmarks_array, axis=1) as a flat list: per frame and
\* coordinate, the variance over the points.
light_frame_variance(landmarks_array, width) ==
    Flatten([f \in DOMAIN landmarks_array |->
                [j \in 1..width |-> NpVar(Column(landmarks_array[f], j)).v]])

\* Lines 191-198.
fallback_rules(total_variance, avg_frame_variance) ==
    IF FGt(total_variance, Num(SqU(2000))) THEN "Hello world, this is a test."
    ELSE IF FGt(avg_frame_variance, Num(SqU(1000))) THEN "Hello world"
    ELSE IF FGt(total_variance, Num(SqU(500))) THEN "Hello"
    ELSE "Hi"

\* analyze_fallback_patterns, lines 183-200, on the whole array.
analyze_fallback_patterns(landmarks_array) ==
    fallback_rules(NpVar(Flatten(Flatten(landmarks_array))),
                   NpMean(light_frame_variance(landmarks_array,
                              IF landmarks_array[1] = <<>> THEN 0
                              ELSE Len(landmarks_array[1][1]))))

NoMetrics ==
    [total_variance |-> NaN, movement_intensity |-> NaN, movement_consistency |-> NaN,
     lip_opening_variance |-> NaN, opening_frequency |-> NaN]

\* What analyze_lip_movement returns and does: the text, the branch that
\* produced it and the metrics of the lip branch.
Movement(text, path, metrics) == [text |-> text, path |-> path, metrics |-> metrics]

\* Lines 65-74.
recognize(movement_metrics) ==
    Movement(recognize_speech_pattern(movement_metrics), "lip", movement_metrics)

\* landmarks_array[:, valid_lip_indices, :], line 63.
take_points(landmarks_array, valid_lip) ==
    [f \in DOMAIN landmarks_array |->
        [q \in DOMAIN valid_lip |-> At(landmarks_array[f], valid_lip[q])]]

\* A variant of lines 58-74 that sends every array below the full mesh to
\* the fallback analysis.
lip_or_fallback_below_mesh(landmarks_array, valid_lip) ==
    IF Len(valid_lip) = 0 \/ Len(landmarks_array[1]) < FullMesh
    THEN Movement(analyze_fallback_patterns(landmarks_array), "fallback", NoMetrics)
    ELSE recognize(calculate_movement_metrics(take_points(landmarks_array, valid_lip)))

\* Lines 58-74, on the valid lip indices.
lip_or_fallback(landmarks_array, valid_lip) ==
    IF Len(valid_lip) = 0
    THEN Movement(analyze_fallback_patterns(landmarks_array), "fallback", NoMetrics)
    ELSE recognize(calculate_movement_metrics(take_points(landmarks_array, valid_lip)))

\* A variant of analyze_lip_movement without the catch-all of lines 76-78:
\* the failure of np.array leaves the function.
analyze_lip_movement_uncaught(landmarks_data) ==
    IF Len(landmarks_data) = 0
    THEN Movement("No movement detected", "empty", NoMetrics)
    ELSE IF ~Rectangular(landmarks_data)
    THEN Movement("setting an array element with a sequence", "raise", NoMetrics)
    ELSE lip_or_fallback(landmarks_data,
                         SelectSeq(lip_landmarks_indices,
                                   LAMBDA i : i < Len(landmarks_data[1])))

\* analyze_lip_movement, lines 33-78.
analyze_lip_movement(landmarks_data) ==
    IF Len(landmarks_data) = 0
    THEN Movement("No movement detected", "empty", NoMetrics)
    ELSE IF ~Rectangular(landmarks_data)
    THEN \* np.array raises; caught at line 76
         Movement("Hello world, this is a test.", "except", NoMetrics)
    ELSE lip_or_fallback(landmarks_data,
                         SelectSeq(lip_landmarks_indices,
                                   LAMBDA i : i < Len(landmarks_data[1])))

\* The response of /predict, lines 212-230, with what the analysis did:
\* the LipReadResponse of lines 222-226, or the HTTP 500 of lines 228-230
\* when analyze_lip_movement raised (path "raise", its text the message).
light_response(a) ==
    IF a.path = "raise"
    THEN [status |-> 500, text |-> PyNone, confidence |-> 0, path |-> a.path,
          metrics |-> a.metrics, detail |-> a.text]
    ELSE [status |-> 200, text |-> a.text, confidence |-> RDiv(75 * Scale, 100),
          path |-> a.path, metrics |-> a.metrics, detail |-> PyNone]

\* predict_lip_reading of app_lightweight.py, lines 207-230.
light_predict_lip_reading(landmarks) == light_response(analyze_lip_movement(landmarks))

\* ------------------------------------------------- the requests explored

\* Largest number of full-mesh frames in one request.
MaxFullFrames == 3

\* Number of frames beyond max_frames in the long requests.
ExtraFrames == 1

\* The smallest lip index of app_lightweight.py: a frame of so many points
\* has no lip point.
MaxTinyPoints == SeqMin(lip_landmarks_indices)

\* A coordinate large against the offsets of LipFrame, which makes the
\* standard deviation of a LipFrame about 1000 units.
Spread == 5196

\* A full mesh of dims-dimensional points, all at the origin.
ZeroMesh(dims) == MkFrame(FullMesh, [j \in 1..dims |-> 0], <<>>)

\* A full mesh of 2-D points at the origin, except two lip points at
\* (Spread, 0) and (-Spread, 0) and the first lip point and another at
\* (ex, ey) and (-ex, -ey): after normalisation the first lip point is at
\* about (ex, ey) thousandths.
LipFrame(ex, ey) ==
    MkFrame(FullMesh, <<0, 0>>,
            (13 :> <<ex, ey>>) @@ (402 :> <<-ex, -ey>>)
            @@ (14 :> <<Spread, 0>>) @@ (17 :> <<-Spread, 0>>))

\* A full mesh of 3-D points, all at (c, c, c) except lip point 13.
Mesh3(c, pt) == MkFrame(FullMesh, <<c, c, c>>, (13 :> pt))

\* A frame of n 2-D points at the origin, except its last point at (0, y).
SubFrame(n, y) == MkFrame(n, <<0, 0>>, ((n - 1) :> <<0, y>>))

\* n copies of a frame.
Repeat(frame, n) == [i \in 1..n |-> frame]

\* One full-mesh frame per pair of offsets of the first lip point.
SingleFrameRequests ==
    [i \in 1..12 |->
        LET e == <<<<0, 0>>, <<0, 3>>, <<3, 0>>, <<12, 0>>, <<0, 7>>, <<12, 7>>,
                   <<0, 9>>, <<7, 9>>, <<12, 9>>, <<0, 12>>, <<9, 12>>, <<12, 12>>>>[i]
        IN  <<LipFrame(e[1], e[2])>>]

\* Requests of full-mesh frames only: 1..MaxFullFrames identical frames,
\* and as many frames that differ in one lip point.
FullMeshRequests ==
    [n \in 1..MaxFullFrames |-> Repeat(ZeroMesh(3), n)]
    \o [n \in 1..MaxFullFrames |-> Repeat(Mesh3(100, <<100, 100, 100>>), n)]
    \o [n \in 1..MaxFullFrames |-> [f \in 1..n |-> Mesh3(0, <<0, 40 * f, 0>>)]]

\* Requests whose frames all have fewer points than the full mesh.
SubMeshRequests ==
    <<  <<>>,
        << <<>> >>,
        <<SubFrame(MaxTinyPoints, 0)>>,
        <<SubFrame(MaxTinyPoints, 200)>>,
        <<SubFrame(MaxTinyPoints + 1, 0)>>,
        <<SubFrame(FullMesh - 1, 0)>>,
        <<SubFrame(FullMesh - 1, 50), SubFrame(FullMesh - 1, 50)>>,
        <<SubFrame(MaxTinyPoints + 1, 0), SubFrame(MaxTinyPoints + 1, 100)>>,
        <<SubFrame(MaxTinyPoints + 1, 0), SubFrame(MaxTinyPoints + 1, 100),
          SubFrame(MaxTinyPoints + 1, 0)>>,
        <<SubFrame(MaxTinyPoints + 1, 0), SubFrame(MaxTinyPoints + 1, 120),
          SubFrame(MaxTinyPoints + 1, 0), SubFrame(MaxTinyPoints + 1, 5)>>,
        <<SubFrame(MaxTinyPoints + 1, 0), SubFrame(MaxTinyPoints + 1, 30),
          SubFrame(MaxTinyPoints + 1, 60)>> >>

\* A full-mesh frame of 2-D points alone, and requests whose frames differ
\* in point count or in dimensionality.
MixedRequests ==
    <<  <<ZeroMesh(3), SubFrame(MaxTinyPoints, 0)>>,
        <<SubFrame(MaxTinyPoints + 1, 0), LipFrame(12, 12)>>,
        <<ZeroMesh(3), ZeroMesh(2)>>,
        <<SubFrame(MaxTinyPoints + 1, 0), SubFrame(MaxTinyPoints, 0)>>,
        <<MkFrame(FullMesh, <<0, 0, 0>>, (13 :> <<0, 0>>))>>,
        <<MkFrame(MaxTinyPoints + 1, <<0, 0>>, (MaxTinyPoints :> <<0, 0, 0>>))>> >>

\* Requests of more than max_frames frames.
LongRequests ==
    <<  Repeat(SubFrame(1, 0), max_frames) \o Repeat(LipFrame(12, 12), ExtraFrames),
        Repeat(SubFrame(MaxTinyPoints + 1, 0), max_frames)
            \o Repeat(SubFrame(MaxTinyPoints + 1, 300), ExtraFrames),
        Repeat(SubFrame(MaxTinyPoints + 1, 0), max_frames + ExtraFrames),
        <<LipFrame(12, 12)>> \o Repeat(SubFrame(1, 0), max_frames - 1 + ExtraFrames) >>

\* The landmark sequences of the requests, by request identifier.
Requests ==
    SingleFrameRequests \o FullMeshRequests \o SubMeshRequests \o MixedRequests \o LongRequests

InputIds == DOMAIN Requests

\* ------------------------------------------------------ the two services

\* The values the globals model and tokenizer of app.py can hold.
ModelValues == {PyNone, "distilbert-base-uncased"}
TokenizerValues == {PyNone, "AutoTokenizer"}

\* /predict of app.py on one request, by the values of model and tokenizer.
ForTokenizers(landmarks, m) ==
    (PyNone :> predict_lip_reading(landmarks, m, PyNone))
    @@ ("AutoTokenizer" :> predict_lip_reading(landmarks, m, "AutoTokenizer"))
ForGlobals(landmarks) ==
    (PyNone :> ForTokenizers(landmarks, PyNone))
    @@ ("distilbert-base-uncased" :> ForTokenizers(landmarks, "distilbert-base-uncased"))

RECURSIVE AppPredictTo(_)
AppPredictTo(n) ==
    IF n = 0 THEN <<>>
    ELSE Append(AppPredictTo(n - 1), ForGlobals(Requests[n]))

\* /predict of app.py on every request, for every value of the globals.
AppPredict == AppPredictTo(Len(Requests))

RECURSIVE LightPredictTo(_)
LightPredictTo(n) ==
    IF n = 0 THEN <<>>
    ELSE Append(LightPredictTo(n - 1), light_predict_lip_reading(Requests[n]))

\* /predict of app_lightweight.py on every request.
LightPredict == LightPredictTo(Len(Requests))

\* A variant of load_model that keeps the model it downloads.
load_model_keeps_model(ok) ==
    IF ok THEN [model |-> "distilbert-base-uncased", tokenizer |-> "AutoTokenizer"]
    ELSE [model |-> PyNone, tokenizer |-> PyNone]

\* load_model, lines 40-71: the globals after the call; ok tells whether
\* AutoTokenizer.from_pretrained returned or raised.
load_model(ok) ==
    IF ok THEN [model |-> PyNone, tokenizer |-> "AutoTokenizer"]
    ELSE [model |-> PyNone, tokenizer |-> PyNone]

\* health_check, line 439.
health_check(mdl) == [status |-> "healthy", model_loaded |-> mdl # PyNone]

NoResponse == [kind |-> "none"]

Init ==
    /\ model = PyNone
    /\ tokenizer = PyNone
    /\ last = NoResponse
    /\ ref = NoResponse

\* startup_event / load_model.
LoadModel ==
    \E ok \in BOOLEAN :
        /\ model' = load_model(ok).model
        /\ tokenizer' = load_model(ok).tokenizer
        /\ UNCHANGED <<last, ref>>

\* What is kept of a response to compare later responses with: the
\* request, the answer, and the tokenizer global at the time.
Answer(app, id, r) == [kind |-> "answer", app |-> app, id |-> id,
                       text |-> r.text, confidence |-> r.confidence,
                       tokenizer |-> tokenizer]

\* The handler of app answers request id with r.  keep tells whether this
\* response becomes the reference that later responses are compared with.
Answered(app, id, keep, r) ==
    /\ last' = [kind |-> app, id |-> id, response |-> r]
    /\ ref' = IF keep THEN Answer(app, id, r) ELSE ref
    /\ UNCHANGED <<model, tokenizer>>

\* POST /predict of app.py with the landmarks of request id.
Predict ==
    \E id \in InputIds, keep \in BOOLEAN :
        Answered("app", id, keep, AppPredict[id][model][tokenizer])

\* POST /predict of app_lightweight.py.
LightPredictAction ==
    \E id \in InputIds, keep \in BOOLEAN :
        Answered("light", id, keep, LightPredict[id])

\* GET /health of app.py.
Health ==
    /\ last' = [kind |-> "health", response |-> health_check(model)]
    /\ UNCHANGED <<model, tokenizer, ref>>

Next == LoadModel \/ Predict \/ LightPredictAction \/ Health

Spec == Init /\ [][Next]_vars

\* --------------------------------- detect_phonemes and phonemes_to_text

\* Largest coordinate of the tensors detect_phonemes is applied to, in
\* units of 1/Scale.
MaxCoord == 12

\* Longest list of labels phonemes_to_text is applied to, beside the lists
\* of PatternLists.
MaxLabels == 2

\* The labels the tests of phonemes_to_text mention.
Labels ==
    {"A", "E", "I", "O", "U", "H", "L", "G", "D", "T", "N", "Y", "S", "B", "P", "R",
     "M", "F", "V"}

\* The lists of labels of one length.
LabelLists(n) == [1..n -> Labels]

\* The lists that reach the word patterns of lines 341-377.
PatternLists ==
    {<<"H", "E", "L">>, <<"T", "H", "A", "N">>, <<"Y", "E", "S">>, <<"G", "O", "D">>,
     <<"P", "L", "E">>, <<"S", "O", "R">>, <<"A", "M", "B", "P">>,
     <<"A", "M", "F", "V", "T">>}

\* The lists phonemes_to_text is applied to, the empty one included.
PhonemeLists == UNION {LabelLists(n) : n \in 0..MaxLabels} \cup PatternLists

\* The values of movement_intensity: NaN and values around the thresholds
\* 0.01, 0.015 and 0.02.
IntensityValues == {NaN} \cup {Num(Milli(v)) : v \in {0, 10, 11, 15, 16, 20, 21}}

\* The arrays detect_phonemes is applied to.  Batch 1: one entry of two
\* rows, <<x, y>> and a zero row, as a padded tensor of one real frame.
\* Batch 2: two entries of one row, <<0, 0>> and <<x, y>>, which have a
\* frame-to-frame difference.
SmallTensor(batch, x, y) ==
    IF batch = 1 THEN << << <<x, y>>, <<0, 0>> >> >>
    ELSE << << <<0, 0>> >>, << <<x, y>> >> >>

\* What detect_phonemes computed on an array.
Detected(landmarks_np, x_coords, y_coords) ==
    [kind              |-> "detect_phonemes",
     batch             |-> Len(landmarks_np),
     lip_opening_range |-> RangeOf(y_coords),
     lip_width_range   |-> RangeOf(x_coords),
     phonemes          |-> detect_phonemes(landmarks_np, x_coords, y_coords)]

\* The inputs drawn for the two functions: the indices of a small array,
\* or a list of labels with a movement_intensity.
TensorInputs ==
    {[kind |-> "landmarks_np", batch |-> batch, x |-> x, y |-> y] :
        batch \in {1, 2}, x \in 0..MaxCoord, y \in 0..MaxCoord}
ListInputs ==
    {[kind |-> "phonemes", phonemes |-> phonemes, movement_intensity |-> movement_intensity] :
        phonemes \in PhonemeLists, movement_intensity \in IntensityValues}

InitPhonemes ==
    /\ model = PyNone
    /\ tokenizer = PyNone
    /\ ref = NoResponse
    /\ last \in TensorInputs \cup ListInputs

\* detect_phonemes(landmarks_np, landmarks_np[:, :, 0], landmarks_np[:, :, 1]),
\* as analyze_lip_patterns calls it (lines 203-232).
DetectOn(landmarks_np) ==
    /\ last' = Detected(landmarks_np, Channel(landmarks_np, 0), Channel(landmarks_np, 1))
    /\ UNCHANGED <<model, tokenizer, ref>>

\* detect_phonemes on the array drawn.
DetectPhonemes ==
    /\ last.kind = "landmarks_np"
    /\ DetectOn(SmallTensor(last.batch, last.x, last.y))

\* What phonemes_to_text returned on a list; detected tells whether the
\* list came from detect_phonemes.
Synthesized(phonemes, movement_intensity, detected) ==
    [kind               |-> "phonemes_to_text",
     detected           |-> detected,
     phonemes           |-> phonemes,
     movement_intensity |-> movement_intensity,
     text               |-> phonemes_to_text(phonemes, movement_intensity, NaN)]

\* phonemes_to_text on the list and the movement_intensity drawn.
PhonemesToText ==
    /\ last.kind = "phonemes"
    /\ last' = Synthesized(last.phonemes, last.movement_intensity, FALSE)
    /\ UNCHANGED <<model, tokenizer, ref>>

\* phonemes_to_text on the list detect_phonemes just returned (line 235),
\* with any movement_intensity.
TextOfDetected ==
    /\ last.kind = "detect_phonemes"
    /\ \E movement_intensity \in IntensityValues :
          last' = Synthesized(last.phonemes, movement_intensity, TRUE)
    /\ UNCHANGED <<model, tokenizer, ref>>

NextPhonemes == DetectPhonemes \/ PhonemesToText \/ TextOfDetected

\* The two functions applied to every input of the bounded sets.
SpecPhonemes == InitPhonemes /\ [][NextPhonemes]_vars

\* ------------------------------------------------ facts about a request

\* The indices of the frames with a full mesh.
FullFramesOf(landmarks) == {k \in DOMAIN landmarks : Len(landmarks[k]) >= FullMesh}

\* The numbers of coordinates of the points of a request.
DimsOf(landmarks) ==
    UNION {{Len(landmarks[k][q]) : q \in DOMAIN landmarks[k]} : k \in DOMAIN landmarks}

FactsOf(landmarks) ==
    [nframes   |-> Len(landmarks),
     full      |-> FullFramesOf(landmarks),
     counts    |-> {Len(landmarks[k]) : k \in DOMAIN landmarks},
     dims      |-> DimsOf(landmarks),
     identical |-> \A k \in DOMAIN landmarks : landmarks[k] = landmarks[1],
     zero      |-> \A k \in DOMAIN landmarks : \A q \in DOMAIN landmarks[k] :
                      \A j \in DOMAIN landmarks[k][q] : landmarks[k][q][j] = 0]

RECURSIVE FactsTo(_)
FactsTo(n) == IF n = 0 THEN <<>> ELSE Append(FactsTo(n - 1), FactsOf(Requests[n]))

\* The facts of every request.
Facts == FactsTo(Len(Requests))

\* The last step answered a /predict of app.py (of app_lightweight.py).
AppDone == last.kind = "app"
LightDone == last.kind = "light"

\* A valid request of app.py: at least one full-mesh frame, every point
\* with the same 2 or 3 coordinates.
ValidRequest(id) ==
    /\ Facts[id].full # {}
    /\ Cardinality(Facts[id].dims) = 1
    /\ Facts[id].dims \subseteq {2, 3}

\* Every frame has the same number of points and every point the same
\* number of coordinates.
Consistent(id) == Cardinality(Facts[id].counts) <= 1 /\ Cardinality(Facts[id].dims) <= 1

\* ------------------------------------------------------------ the claims

\* C1: in app.py the confidence of the response to a valid request (at
\* least one frame of 468 points or more, every point with the same 2 or 3
\* coordinates) lies in [0.1, 1.0].
C1_ConfidenceInRange ==
    (AppDone /\ ValidRequest(last.id))
        => (last.response.confidence >= Milli(100) /\ last.response.confidence <= Scale)

\* C2: two requests to the same service that carry the same landmark
\* sequence get the same text and the same confidence, whatever requests
\* and load_model calls ran between them.
C2_Deterministic ==
    (ref.kind = "answer" /\ last.kind = ref.app /\ Requests[last.id] = Requests[ref.id])
        => (last.response.text = ref.text /\ last.response.confidence = ref.confidence)

\* Witness of C2: a request of app.py answered again after load_model
\* changed the tokenizer global.
C2_Witness ==
    /\ ref.kind = "answer" /\ ref.app = "app" /\ AppDone
    /\ last.id = ref.id
    /\ ref.tokenizer # tokenizer
    /\ last.response.exc = "None"

\* C3: in app.py a request with zero frames, or whose frames all have
\* fewer than 468 points, takes the empty-input error path:
\* preprocess_landmarks raises, no later stage runs, and the handler
\* returns a response with confidence 0.0 and the error text.
C3_EmptyInputErrorPath ==
    (AppDone /\ Facts[last.id].full = {})
        => /\ last.response.exc = "No valid lip landmarks found"
           /\ last.response.trace = <<"preprocess_landmarks">>
           /\ last.response.confidence = 0
           /\ last.response.text = "Error processing landmarks: No valid lip landmarks found"

\* Witness of C3: app.py answered a request that has frames, all of them
\* below the full mesh.
C3_Witness ==
    /\ AppDone
    /\ Facts[last.id].nframes > 0 /\ Facts[last.id].full = {}
    /\ last.response.confidence = 0

\* What a service answers to the first max_frames frames of request id.
AnswerToFirstFrames(app, id) ==
    IF app = "app"
    THEN predict_lip_reading(SubSeq(Requests[id], 1, max_frames), model, tokenizer)
    ELSE light_predict_lip_reading(SubSeq(Requests[id], 1, max_frames))

\* C4: for a request of more than 50 frames the text and the confidence
\* equal those of the request made of its first 50 frames.
C4_TruncationEquivalence ==
    ((AppDone \/ LightDone) /\ Facts[last.id].nframes > max_frames)
        => /\ last.response.text = AnswerToFirstFrames(last.kind, last.id).text
           /\ last.response.confidence = AnswerToFirstFrames(last.kind, last.id).confidence

\* C5: for a request with at least one full-mesh frame, whatever their
\* number, preprocess_landmarks returns a tensor of exactly 50 rows of one
\* width, the rows after the real frames all zero.
C5_FixedShape ==
    (AppDone /\ ValidRequest(last.id))
        => /\ Len(last.response.shape) = 3
           /\ last.response.shape[2] = max_frames
           /\ last.response.pad_zero

\* C6 as stated: a frame of fewer than 468 points never takes the
\* lip-specific path; it is routed to the fallback analysis of the whole
\* frame.
C6_SubMeshToFallback ==
    /\ AppDone => last.response.lipFrames \cap (1..Facts[last.id].nframes \ Facts[last.id].full) = {}
    /\ (LightDone /\ Facts[last.id].nframes > 0 /\ Consistent(last.id)
          /\ \E c \in Facts[last.id].counts : c < FullMesh)
        => last.response.path = "fallback"

\* C6 amended: in app.py a frame of fewer than 468 points never takes the
\* lip-specific path (it is skipped); in app_lightweight.py the frames of a
\* rectangular request take the lip path, on the lip indices below their
\* point count, as soon as they have more than 13 points, and go to the
\* fallback analysis of the whole array only with 13 points or fewer.
C6_Routing ==
    /\ AppDone => last.response.lipFrames \subseteq Facts[last.id].full
    /\ (LightDone /\ Facts[last.id].nframes > 0 /\ Consistent(last.id))
        => \A c \in Facts[last.id].counts :
              /\ (c <= 13) = (last.response.path = "fallback")
              /\ (c > 13) = (last.response.path = "lip")

\* Witness of C6: app_lightweight.py ran the lip path on frames that have
\* more than 13 points and fewer than 468.
C6_Witness ==
    /\ LightDone /\ Consistent(last.id)
    /\ \E c \in Facts[last.id].counts : c > 13 /\ c < FullMesh
    /\ last.response.path = "lip"

\* C7: a request whose frames differ in point count or in dimensionality
\* gets a zero-confidence response, never a normal prediction.
C7_MalformedRejected ==
    ((AppDone \/ LightDone) /\ ~Consistent(last.id)) => last.response.confidence = 0

\* The movement_intensity the last request computed.
LastMovementIntensity ==
    IF AppDone THEN last.response.movement_intensity
    ELSE last.response.metrics.movement_intensity

\* C8: for one or more identical full-mesh frames movement_intensity is
\* exactly 0 and the confidence is the floor 0.1.
C8_ConstantFrames ==
    ((AppDone \/ LightDone) /\ ValidRequest(last.id) /\ Facts[last.id].identical
         /\ Facts[last.id].full = 1..Facts[last.id].nframes)
        => /\ LastMovementIntensity = Num(0)
           /\ last.response.confidence = Milli(100)

\* The request is one frame of 468 points, all coordinates zero.
OneZeroFrame(id) ==
    /\ Facts[id].nframes = 1 /\ Facts[id].counts = {FullMesh}
    /\ Facts[id].zero /\ ValidRequest(id)

\* C9 as stated: for one frame of 468 all-zero points app.py returns
\* confidence 0.1 and the text "No speech detected", or takes the
\* empty-input error path.
C9_NoSpeechText ==
    (AppDone /\ OneZeroFrame(last.id))
        => \/ (last.response.confidence = Milli(100)
               /\ last.response.text = "No speech detected")
           \/ last.response.exc = "No valid lip landmarks found"

\* C9 amended: for one frame of 468 all-zero points app.py returns
\* confidence 0.1 and the text "Ah" of the default label of
\* detect_phonemes, without taking an error path.
C9_ZeroFrameIsAh ==
    (AppDone /\ OneZeroFrame(last.id))
        => /\ last.response.confidence = Milli(100)
           /\ last.response.text = "Ah"
           /\ last.response.phonemes = <<"A">>
           /\ last.response.exc = "None"

\* Witness of C9: app.py answered a request of one all-zero full-mesh frame.
C9_Witness == AppDone /\ OneZeroFrame(last.id) /\ last.response.trace = AllStages

\* C10: in app.py the global model is None in every reachable state, so
\* /predict never uses the model branch and /health reports model_loaded
\* false, whether the tokenizer loaded or not.
C10_ModelNeverLoaded ==
    /\ model = PyNone
    /\ AppDone => ~last.response.model_used
    /\ last.kind = "health" => ~last.response.model_loaded

\* Witness of C10: /health answered after a load_model whose tokenizer
\* loaded.
C10_Witness ==
    /\ last.kind = "health"
    /\ tokenizer # PyNone
    /\ ~last.response.model_loaded

\* detect_phonemes (phonemes_to_text) has just been applied.
DetectDone == last.kind = "detect_phonemes"
TextDone == last.kind = "phonemes_to_text"

\* The vowel labels of a list, in order.
VowelsOf(phonemes) == SelectSeq(phonemes, LAMBDA p : p \in {"A", "E", "I", "O", "U"})

\* C11: for every non-empty list of labels and every movement_intensity,
\* phonemes_to_text returns a phrase: it never ends without a text value.
C11_AlwaysAText ==
    (TextDone /\ last.phonemes # <<>>) => last.text # PyNone

\* The default label of detect_phonemes for a pair of ranges.
DefaultLabel(lip_opening_range, lip_width_range) ==
    IF 1000 * lip_opening_range > Scale THEN "H"
    ELSE IF 1000 * lip_width_range > Scale THEN "M"
    ELSE "A"

\* C12: detect_phonemes never returns an empty list and never takes its
\* exception fallback; when no threshold rule adds a label (opening range
\* <= 0.005, width range <= 0.01, no movement pattern) the list is exactly
\* the default label: "H" if the opening range > 0.001, else "M" if the
\* width range > 0.001, else "A".
C12_NeverEmpty ==
    DetectDone =>
        /\ last.phonemes # <<>>
        /\ last.phonemes # <<"H", "E", "L", "L", "O">>
        /\ (last.batch = 1 /\ 1000 * last.lip_opening_range <= 5 * Scale
               /\ 1000 * last.lip_width_range <= 10 * Scale)
             => last.phonemes = <<DefaultLabel(last.lip_opening_range, last.lip_width_range)>>

\* Witness of C12: no rule added a label and the default "H" was assigned.
C12_Witness ==
    /\ DetectDone /\ last.batch = 1
    /\ 1000 * last.lip_opening_range <= 5 * Scale
    /\ last.phonemes = <<"H">>

\* C13: the list of detect_phonemes holds at most one vowel label: "A" or
\* "O" when the opening range > 0.01, else "E" or "I" when it is > 0.008,
\* else "U" when it is > 0.005; below that the only vowel is the "A" of the
\* empty-list default.
C13_VowelCascade ==
    DetectDone =>
        /\ Len(VowelsOf(last.phonemes)) <= 1
        /\ 1000 * last.lip_opening_range > 10 * Scale
             => (VowelsOf(last.phonemes) \in {<<"A">>, <<"O">>}
                 /\ last.phonemes[1] \in {"A", "O"})
        /\ (1000 * last.lip_opening_range <= 10 * Scale
               /\ 1000 * last.lip_opening_range > 8 * Scale)
             => (VowelsOf(last.phonemes) \in {<<"E">>, <<"I">>}
                 /\ last.phonemes[1] \in {"E", "I"})
        /\ (1000 * last.lip_opening_range <= 8 * Scale
               /\ 1000 * last.lip_opening_range > 5 * Scale)
             => (VowelsOf(last.phonemes) = <<"U">> /\ last.phonemes[1] = "U")
        /\ 1000 * last.lip_opening_range <= 5 * Scale
             => (VowelsOf(last.phonemes) = <<>> \/ last.phonemes = <<"A">>)

\* Witness of C13: a list with one vowel chosen by the largest threshold,
\* followed by consonant labels.
C13_Witness ==
    /\ DetectDone
    /\ 1000 * last.lip_opening_range > 10 * Scale
    /\ Len(last.phonemes) > 1
    /\ Len(VowelsOf(last.phonemes)) = 1

\* C16: the labels of detect_phonemes come from A O E I U M B P F V T D H L,
\* "H" never comes with "E" or "I", and at most one vowel is present; on
\* such a list phonemes_to_text returns, for any movement_intensity, only
\* Please, Ah, Eh, Ee, Oh, Oo, Hi, Good, Thank you, Yes or no value.
C16_ReachableTexts ==
    /\ DetectDone =>
          /\ \A i \in DOMAIN last.phonemes :
                last.phonemes[i] \in {"A", "O", "E", "I", "U", "M", "B", "P", "F", "V",
                                      "T", "D", "H", "L"}
          /\ ~(Has(last.phonemes, "H")
               /\ (Has(last.phonemes, "E") \/ Has(last.phonemes, "I")))
          /\ Len(VowelsOf(last.phonemes)) <= 1
    /\ (TextDone /\ last.detected) =>
          last.text \in {"Please", "Ah", "Eh", "Ee", "Oh", "Oo", "Hi", "Good",
                         "Thank you", "Yes", PyNone}

\* Witness of C16: phonemes_to_text answered "Please" on a list of
\* detect_phonemes.
C16_Witness == TextDone /\ last.detected /\ last.text = "Please"

\* predict_text was entered: preprocess_landmarks returned a tensor.
AnalysisRan == Len(last.response.trace) >= 2

\* C14: movement_intensity is 0, never NaN, when there is no frame-to-frame
\* difference to average: in app.py on the tensor of preprocess_landmarks
\* (a batch of one), in app_lightweight.py on a single frame.
C14_IntensityZeroNotNaN ==
    /\ (AppDone /\ AnalysisRan) => last.response.movement_intensity = Num(0)
    /\ (LightDone /\ last.response.path = "lip" /\ Facts[last.id].nframes <= 1)
          => last.response.metrics.movement_intensity = Num(0)

\* The number of features of the first processed frame of a request.
FirstWidth(id) == Len(valid_lip_indices) * (CHOOSE d \in Facts[id].dims : TRUE)

\* The message of the exception of preprocess_landmarks on n >= 2
\* full-mesh frames whose first feature vector has w features.
WidthMismatch(n, w) ==
    IF n = 2
    THEN "expected sequence of length " \o ToString(w) \o " at dim 1 (got "
         \o ToString(2 * w) \o ")"
    ELSE "operands could not be broadcast together with shapes ("
         \o ToString(w) \o ",) (" \o ToString(2 * w) \o ",) "

\* C15: in app.py, when all points have the same 2 or 3 coordinates,
\* preprocess_landmarks returns iff exactly one frame has 468 points or
\* more; with none it raises "No valid lip landmarks found"; with two or
\* more it raises on the feature widths W and 2W, and /predict answers
\* with confidence 0.0.
C15_OnlyOneFullFrame ==
    (AppDone /\ Cardinality(Facts[last.id].dims) <= 1 /\ Facts[last.id].dims \subseteq {2, 3})
        => /\ AnalysisRan = (Cardinality(Facts[last.id].full) = 1)
           /\ Facts[last.id].full = {}
                => last.response.exc = "No valid lip landmarks found"
           /\ Cardinality(Facts[last.id].full) >= 2
                => /\ last.response.exc
                        = WidthMismatch(Cardinality(Facts[last.id].full), FirstWidth(last.id))
                   /\ last.response.trace = <<"preprocess_landmarks">>
                   /\ last.response.confidence = 0

\* Witness of C15: app.py answered a request of several full-mesh frames
\* with confidence 0.0.
C15_Witness ==
    /\ AppDone
    /\ Facts[last.id].dims = {3}
    /\ Cardinality(Facts[last.id].full) >= 3
    /\ Facts[last.id].full = 1..Facts[last.id].nframes
    /\ last.response.confidence = 0

\* The frames of the request are rectangular with more than 13 points.
LipPathRequest(id) ==
    /\ Facts[id].nframes > 0 /\ Consistent(id)
    /\ \A c \in Facts[id].counts : c > 13

\* C17: in app_lightweight.py, on a rectangular request of more than 13
\* points per frame, one frame gives movement_intensity 0 and only "Hi" or
\* "No speech detected"; two frames give opening_frequency 0 and neither
\* "Hello world" nor "Hello world, this is a test."; these two phrases
\* need three frames or more.
C17_PhrasesNeedThreeFrames ==
    (LightDone /\ LipPathRequest(last.id))
        => /\ last.response.path = "lip"
           /\ Facts[last.id].nframes = 1
                => /\ last.response.metrics.movement_intensity = Num(0)
                   /\ last.response.text \in {"Hi", "No speech detected"}
           /\ Facts[last.id].nframes = 2
                => /\ last.response.metrics.opening_frequency = Num(0)
                   /\ last.response.text
                        \notin {"Hello world", "Hello world, this is a test."}
           /\ last.response.text \in {"Hello world", "Hello world, this is a test."}
                => Facts[last.id].nframes >= 3

\* Witness of C17: two frames whose movement and opening variance exceed
\* the thresholds of complex speech, answered "Hello".
C17_Witness ==
    /\ LightDone /\ LipPathRequest(last.id)
    /\ Facts[last.id].nframes = 2
    /\ FGt(last.response.metrics.movement_intensity, Num(FineU(50)))
    /\ FGt(last.response.metrics.lip_opening_variance, Num(SqU(2000)))
    /\ last.response.text = "Hello"

\* C18: in app_lightweight.py analyze_lip_movement never raises: /predict
\* never answers HTTP 500, every response has confidence exactly 0.75, a
\* request of zero frames gets "No movement detected" and a ragged request
\* gets "Hello world, this is a test." from the catch-all.
C18_LightAlwaysAnswers ==
    LightDone =>
        /\ last.response.status = 200
        /\ 100 * last.response.confidence = 75 * Scale
        /\ Facts[last.id].nframes = 0
             => (last.response.text = "No movement detected" /\ last.response.path = "empty")
        /\ ~Consistent(last.id)
             => (last.response.text = "Hello world, this is a test."
                 /\ last.response.path = "except")

\* Witness of C18: a ragged request answered by the catch-all with
\* confidence 0.75.
C18_Witness ==
    /\ LightDone
    /\ ~Consistent(last.id)
    /\ last.response.path = "except"
    /\ 100 * last.response.confidence = 75 * Scale

====
